---- MODULE Spec2Model ----
(***************************************************************************)
(* B.O.P Stack Builder: the flange catalog, the stack tables and the      *)
(* request handlers that change them, as a state machine.                  *)
(*                                                                         *)
(* A nullable column or an optional field is a sequence of length 0 or 1:  *)
(* None is SQL NULL / JavaScript undefined, Some(v) is the value v.        *)
(***************************************************************************)
EXTENDS Integers, Sequences, FiniteSets, TLC

None == <<>>
Some(v) == <<v>>
IsSome(o) == o # <<>>
Val(o) == o[1]

(***************************************************************************)
(* Bounds of the model.                                                    *)
(***************************************************************************)
MaxStacks == 2
MaxParts == 3
MaxOrderLen == 2
MaxCatalog == 2
MaxConfigParts == 1

(***************************************************************************)
(* shared/schema.ts: the PartType enumeration and the two behavioural      *)
(* classes the client and the report use.                                  *)
(***************************************************************************)
PartType ==
  {"ANNULAR", "SINGLE_RAM", "DOUBLE_RAMS", "MUD_CROSS",
   "ANACONDA_LINES", "ROTATING_HEAD", "ADAPTER_SPOOL_SIDE"}

PRESSURE_DRIVEN_PARTS == {"ANNULAR", "SINGLE_RAM", "DOUBLE_RAMS", "MUD_CROSS"}

VARIABLES
  flangeSpecs,     \* table flange_spec: a set of rows
  nextSpecId,      \* ids handed out to new flange_spec rows
  stackHeaders,    \* table stack_header: the ids of the stacks
  nextStackId,     \* ids handed out to new stacks
  partSelections,  \* table part_selection: a set of rows
  nextPartId,      \* ids handed out to new part_selection rows
  stackOrders,     \* table stack_order: a set of rows
  currentStackId,  \* useStack: the client's current stack (None or Some(id))
  showPartTypeModal, \* Home: the part type dialog is open
  partType,        \* Home: selectedPartType, "none" while no configurator is open
  config,          \* PartConfiguration: ConfigState
  step,            \* PartConfiguration: step
  toast,           \* the last toast shown by the client
  mutation,        \* useStack.addPartMutation: the requests still to send
  response,        \* the last response a reader of the server received
  pending,         \* the storage calls in flight: their statements still to run
  clock            \* the database clock that defaultNow() reads

serverVars == <<flangeSpecs, nextSpecId, stackHeaders, nextStackId,
                partSelections, nextPartId, stackOrders>>
clientVars == <<currentStackId, showPartTypeModal, partType, config, step,
                toast, mutation>>
ioVars == <<response, pending, clock>>
vars == <<flangeSpecs, nextSpecId, stackHeaders, nextStackId, partSelections,
          nextPartId, stackOrders, currentStackId, showPartTypeModal,
          partType, config, step, toast, mutation, response, pending, clock>>

(***************************************************************************)
(* Conversions between numbers and the text that carries them in a select  *)
(* value or a query string.  A number's text is its sequence of decimal    *)
(* digit characters, with a leading "-" when it is negative.               *)
(***************************************************************************)
DigitChars == <<"0", "1", "2", "3", "4", "5", "6", "7", "8", "9">>

RECURSIVE Digits(_)
Digits(n) ==
  IF n < 10 THEN <<DigitChars[n + 1]>>
  ELSE Digits(n \div 10) \o <<DigitChars[(n % 10) + 1]>>

\* Number.prototype.toString() of an integer
NumToString(n) == IF n < 0 THEN <<"-">> \o Digits(0 - n) ELSE Digits(n)

DigitValue(c) == (CHOOSE i \in 1..10 : DigitChars[i] = c) - 1
IsDigit(c) == \E i \in 1..10 : DigitChars[i] = c

RECURSIVE ParseDigits(_, _)
ParseDigits(s, acc) ==
  IF s = <<>> \/ ~IsDigit(Head(s)) THEN acc
  ELSE ParseDigits(Tail(s), (acc * 10) + DigitValue(Head(s)))

\* parseInt(text) for a text that starts with an optional "-" and a digit
ParseInt(s) ==
  IF Head(s) = "-" THEN 0 - ParseDigits(Tail(s), 0) ELSE ParseDigits(s, 0)

(***************************************************************************)
(* The text of a uuid column: 36 characters, hexadecimal digits in groups  *)
(* of 8, 4, 4, 4 and 12 separated by "-".                                  *)
(***************************************************************************)
HexChars ==
  {"0", "1", "2", "3", "4", "5", "6", "7", "8", "9", "a", "b", "c", "d", "e", "f"}

IsUuid(s) ==
  /\ Len(s) = 36
  /\ \A i \in 1..36 :
       IF i \in {9, 14, 19, 24} THEN s[i] = "-" ELSE s[i] \in HexChars

\* 550e8400-e29b-41d4-a716-446655440000
GroupUuid ==
  <<"5", "5", "0", "e", "8", "4", "0", "0", "-", "e", "2", "9", "b", "-",
    "4", "1", "d", "4", "-", "a", "7", "1", "6", "-",
    "4", "4", "6", "6", "5", "5", "4", "4", "0", "0", "0", "0">>

(***************************************************************************)
(* The flange catalog (table flange_spec).                                 *)
(***************************************************************************)
FlangeFields(nb, label, cnt, bolts, raw, ring, ap, sp) ==
  [nominalBore |-> nb, pressureClassLabel |-> label, pressureClassPsi |-> 5000,
   boltCount |-> cnt, sizeOfBolts |-> bolts, wrenchNo |-> 1,
   truckUnitPsi |-> 1900, ringNeeded |-> ring, flangeSizeRaw |-> raw,
   annularPressure |-> ap, singleRamPressure |-> sp,
   doubleRamsPressure |-> None, mudCrossPressure |-> None]

\* flangeSpecs.uniqueSpec: the columns of the unique constraint
NaturalKey(r) ==
  <<r.nominalBore, r.pressureClassLabel, r.boltCount, r.sizeOfBolts>>

WithId(f, id) ==
  [id |-> id, nominalBore |-> f.nominalBore,
   pressureClassLabel |-> f.pressureClassLabel,
   pressureClassPsi |-> f.pressureClassPsi, boltCount |-> f.boltCount,
   sizeOfBolts |-> f.sizeOfBolts, wrenchNo |-> f.wrenchNo,
   truckUnitPsi |-> f.truckUnitPsi, ringNeeded |-> f.ringNeeded,
   flangeSizeRaw |-> f.flangeSizeRaw, annularPressure |-> f.annularPressure,
   singleRamPressure |-> f.singleRamPressure,
   doubleRamsPressure |-> f.doubleRamsPressure,
   mudCrossPressure |-> f.mudCrossPressure]

\* ON CONFLICT (natural key) DO UPDATE SET ...: the columns of the set clause
\* take the values of the proposed row, every other column keeps its value.
ConflictUpdate(old, f) ==
  [old EXCEPT !.wrenchNo = f.wrenchNo, !.truckUnitPsi = f.truckUnitPsi,
              !.ringNeeded = f.ringNeeded,
              !.annularPressure = f.annularPressure,
              !.singleRamPressure = f.singleRamPressure,
              !.doubleRamsPressure = f.doubleRamsPressure,
              !.mudCrossPressure = f.mudCrossPressure]

\* UpsertOne as it would be without the unique constraint: a plain insert.
InsertOne(table, nid, f) ==
  [table |-> table \cup {WithId(f, nid)}, nid |-> nid + 1]

UpsertOne(table, nid, f) ==
  IF \E r \in table : NaturalKey(r) = NaturalKey(f)
  THEN LET old == CHOOSE r \in table : NaturalKey(r) = NaturalKey(f)
       IN  [table |-> (table \ {old}) \cup {ConflictUpdate(old, f)}, nid |-> nid]
  ELSE [table |-> table \cup {WithId(f, nid)}, nid |-> nid + 1]

RECURSIVE UpsertAll(_, _, _)
UpsertAll(table, nid, specs) ==
  IF specs = <<>> THEN [table |-> table, nid |-> nid]
  ELSE LET one == UpsertOne(table, nid, Head(specs))
       IN  UpsertAll(one.table, one.nid, Tail(specs))

\* One INSERT ... ON CONFLICT DO UPDATE statement may not touch a row twice:
\* two proposed rows with the same natural key make the statement fail.
BatchKeysDistinct(specs) ==
  \A i, j \in 1..Len(specs) :
    NaturalKey(specs[i]) = NaturalKey(specs[j]) => i = j

\* DatabaseStorage.insertFlangeSpecs: ok is FALSE when the statement throws.
insertFlangeSpecs(table, nid, specs) ==
  IF specs = <<>> THEN [ok |-> TRUE, table |-> table, nid |-> nid]
  ELSE IF ~BatchKeysDistinct(specs) THEN [ok |-> FALSE, table |-> table, nid |-> nid]
  ELSE LET all == UpsertAll(table, nid, specs)
       IN  [ok |-> TRUE, table |-> all.table, nid |-> all.nid]

\* DatabaseStorage.getFlangeSpecById
getFlangeSpecById(table, id) ==
  IF \E r \in table : r.id = id
  THEN Some(CHOOSE r \in table : r.id = id) ELSE None

\* The pressure column a pressure-driven part type reads.
PressureColumn(pt, r) ==
  CASE pt = "ANNULAR" -> r.annularPressure
    [] pt = "SINGLE_RAM" -> r.singleRamPressure
    [] pt = "DOUBLE_RAMS" -> r.doubleRamsPressure
    [] pt = "MUD_CROSS" -> r.mudCrossPressure

\* FlangeFilterOptions with no field set
NoFilters ==
  [partType |-> None, pressure |-> None, flangeSize |-> None,
   boltCount |-> None, boltSize |-> None]

\* JavaScript truthiness of an optional string
TruthyStr(o) == IsSome(o) /\ Val(o) # ""

\* The part-type condition of getFlangeSpecs (the switch on filters.partType).
PartTypeCondition(filters, r) ==
  IF ~TruthyStr(filters.partType) THEN TRUE
  ELSE IF Val(filters.partType) \in PRESSURE_DRIVEN_PARTS
       THEN IF IsSome(filters.pressure)
            THEN PressureColumn(Val(filters.partType), r) = filters.pressure
            ELSE IsSome(PressureColumn(Val(filters.partType), r))
       ELSE TRUE

\* The rows the WHERE clause of getFlangeSpecs keeps.
getFlangeSpecsRows(table, filters) ==
  IF TruthyStr(filters.partType) /\ Val(filters.partType) \notin PartType
  THEN {}
  ELSE {r \in table :
          /\ PartTypeCondition(filters, r)
          /\ TruthyStr(filters.flangeSize) => r.flangeSizeRaw = Val(filters.flangeSize)
          /\ IsSome(filters.boltCount) => r.boltCount = Val(filters.boltCount)
          /\ TruthyStr(filters.boltSize) => r.sizeOfBolts = Val(filters.boltSize)}

\* The size labels of the model in ascending text order.
LabelOrder == <<"", "11 5M", "13-5/8 10M", "13-5/8 5M">>
LabelRank(s) == CHOOSE i \in 1..Len(LabelOrder) : LabelOrder[i] = s

\* Every list of the rows of S in ascending flangeSizeRaw order; rows with
\* equal labels come in any order (ORDER BY leaves ties open).
OrderedByLabel(S) ==
  {f \in [1..Cardinality(S) -> S] :
     /\ \A i, j \in 1..Cardinality(S) : f[i] = f[j] => i = j
     /\ \A i, j \in 1..Cardinality(S) :
          i < j => LabelRank(f[i].flangeSizeRaw) <= LabelRank(f[j].flangeSizeRaw)}

\* DatabaseStorage.getFlangeSpecs: the lists the query may return.
getFlangeSpecs(table, filters) == OrderedByLabel(getFlangeSpecsRows(table, filters))

RECURSIVE AscendingSeq(_)
AscendingSeq(S) ==
  IF S = {} THEN <<>>
  ELSE LET m == CHOOSE x \in S : \A y \in S : x <= y
       IN  <<m>> \o AscendingSeq(S \ {m})

\* getPressureOptions as it would be without the filter on positive values.
getPressureOptionsUnfiltered(table, pt) ==
  IF pt \notin PRESSURE_DRIVEN_PARTS THEN <<>>
  ELSE LET distinct == {Val(PressureColumn(pt, r)) :
                          r \in {x \in table : IsSome(PressureColumn(pt, x))}}
       IN  AscendingSeq(distinct)

\* DatabaseStorage.getPressureOptions
getPressureOptions(table, pt) ==
  IF pt \notin PRESSURE_DRIVEN_PARTS THEN <<>>
  ELSE LET distinct == {Val(PressureColumn(pt, r)) :
                          r \in {x \in table : IsSome(PressureColumn(pt, x))}}
       IN  SelectSeq(AscendingSeq(distinct), LAMBDA p : p > 0)

(***************************************************************************)
(* The stack tables (stack_header, part_selection, stack_order) and the    *)
(* storage methods on them.  stack_order has foreign keys to stack_header  *)
(* and part_selection, both ON DELETE CASCADE, and part_selection has one  *)
(* to stack_header (ON DELETE CASCADE) and one to flange_spec.  The pk     *)
(* entry of stackOrders is a plain object, no constraint, so the table     *)
(* holds whatever rows are inserted.                                       *)
(***************************************************************************)
PartIds == {p.id : p \in partSelections}
SpecIds == {f.id : f \in flangeSpecs}

\* The rows of one stack
PartsOf(sid) == {p \in partSelections : p.stackId = sid}
OrdersOf(sid) == {o \in stackOrders : o.stackId = sid}
Members(sid) == {p.id : p \in PartsOf(sid)}

\* MaxOf as it would be if it took the least element.
MinOf(S) == CHOOSE x \in S : \A y \in S : x <= y

\* Math.max(...)
MaxOf(S) == CHOOSE x \in S : \A y \in S : y <= x

\* NextPosition as it would be if it took the number of ordering rows for the
\* next position.
NextPositionByCount(orders, sid) ==
  Cardinality({o \in orders : o.stackId = sid})

\* DatabaseStorage.addPartToStack: Math.max(...positions) + 1, or 0
NextPosition(orders, sid) ==
  LET existingOrders == {o \in orders : o.stackId = sid}
  IN  IF existingOrders # {}
      THEN MaxOf({o.position : o \in existingOrders}) + 1
      ELSE 0

\* DatabaseStorage.addPartToStack.  The insert into part_selection throws when
\* the stack or the flange spec it references does not exist; then nothing
\* is stored.  Otherwise the ordering row follows.
addPartToStack(part, id) ==
  IF part.stackId \notin stackHeaders \/ part.flangeSpecId \notin SpecIds
  THEN [ok |-> FALSE, parts |-> partSelections, orders |-> stackOrders]
  ELSE LET created == [id |-> id, stackId |-> part.stackId,
                       partType |-> part.partType,
                       spoolGroupId |-> part.spoolGroupId,
                       pressureValue |-> part.pressureValue,
                       flangeSpecId |-> part.flangeSpecId,
                       createdAt |-> clock]
       IN  [ok |-> TRUE,
            parts |-> partSelections \cup {created},
            orders |-> stackOrders \cup
                         {[stackId |-> part.stackId, partSelectionId |-> id,
                           position |-> NextPosition(stackOrders, part.stackId)]}]

\* removePartFromStack as it would be without the cascade to stack_order.
removePartKeepingOrder(partId) ==
  [parts |-> {p \in partSelections : p.id # partId},
   orders |-> stackOrders]

\* DatabaseStorage.removePartFromStack: the delete cascades to stack_order.
removePartFromStack(partId) ==
  [parts |-> {p \in partSelections : p.id # partId},
   orders |-> {o \in stackOrders : o.partSelectionId # partId}]

\* updateStackOrder as it would be if it numbered the positions from 1.
updateStackOrderFromOne(sid, orderedPartIds) ==
  LET kept == {o \in stackOrders : o.stackId # sid}
      values == {[stackId |-> sid, partSelectionId |-> orderedPartIds[i],
                  position |-> i] : i \in 1..Len(orderedPartIds)}
  IN  IF Len(orderedPartIds) = 0 THEN [ok |-> TRUE, orders |-> kept]
      ELSE IF sid \notin stackHeaders
              \/ \E i \in 1..Len(orderedPartIds) : orderedPartIds[i] \notin PartIds
           THEN [ok |-> FALSE, orders |-> kept]
           ELSE [ok |-> TRUE, orders |-> kept \cup values]

\* DatabaseStorage.updateStackOrder: the delete is one statement and the
\* insert of all new rows another; when the insert violates a foreign key it
\* throws and stores no row, and the delete before it stays.
updateStackOrder(sid, orderedPartIds) ==
  LET kept == {o \in stackOrders : o.stackId # sid}
      values == {[stackId |-> sid, partSelectionId |-> orderedPartIds[i],
                  position |-> i - 1] : i \in 1..Len(orderedPartIds)}
  IN  IF Len(orderedPartIds) = 0 THEN [ok |-> TRUE, orders |-> kept]
      ELSE IF sid \notin stackHeaders
              \/ \E i \in 1..Len(orderedPartIds) : orderedPartIds[i] \notin PartIds
           THEN [ok |-> FALSE, orders |-> kept]
           ELSE [ok |-> TRUE, orders |-> kept \cup values]

\* deleteStack as it would be without ON DELETE CASCADE: the header alone.
deleteStackHeaderOnly(sid) ==
  [stacks |-> stackHeaders \ {sid}, parts |-> partSelections,
   orders |-> stackOrders]

\* DatabaseStorage.deleteStack: the delete cascades to both other tables.
deleteStack(sid) ==
  [stacks |-> stackHeaders \ {sid},
   parts |-> {p \in partSelections : p.stackId # sid},
   orders |-> {o \in stackOrders :
                 /\ o.stackId # sid
                 /\ \A p \in partSelections :
                      p.id = o.partSelectionId => p.stackId # sid}]

\* The rows of the join in getStackWithParts: part_selection of the stack,
\* inner join flange_spec, left join stack_order on the part id alone.
JoinRows(sid) ==
  LET ps == {p \in PartsOf(sid) : p.flangeSpecId \in SpecIds}
  IN  {[part |-> x[1], order |-> Some(x[2])] :
         x \in {y \in ps \X stackOrders : y[2].partSelectionId = y[1].id}}
      \cup
      {[part |-> p, order |-> None] :
         p \in {q \in ps : \A o \in stackOrders : o.partSelectionId # q.id}}

\* PositionOrdered as it would be with ORDER BY position DESC.
PositionOrderedDesc(a, b) ==
  \/ a.order = None
  \/ b.order # None /\ Val(a.order).position >= Val(b.order).position

\* ORDER BY position ASC: a row without position (NULL) sorts last.
PositionOrdered(a, b) ==
  \/ b.order = None
  \/ a.order # None /\ Val(a.order).position <= Val(b.order).position

\* DatabaseStorage.getStackWithParts: the part lists the query may return
\* (rows with equal positions come in any order); {} when the stack is
\* not found (undefined, HTTP 404).
getStackWithParts(sid) ==
  IF sid \notin stackHeaders THEN {}
  ELSE LET rows == JoinRows(sid)
           n == Cardinality(rows)
       IN  {[i \in 1..n |-> f[i].part] :
              f \in {g \in [1..n -> rows] :
                       /\ \A i, j \in 1..n : g[i] = g[j] => i = j
                       /\ \A i, j \in 1..n : i < j => PositionOrdered(g[i], g[j])}}

\* The ids of a returned part list
IdsOf(parts) == [i \in 1..Len(parts) |-> parts[i].id]

(***************************************************************************)
(* The HTTP handlers of server/routes.ts, each one request.                *)
(***************************************************************************)

\* POST /api/stack/:id/items.  insertPartSelectionSchema requires partType
\* and flangeSpecId and puts no condition that relates the part type to the
\* two optional fields; spoolGroupId is a uuid column, so a text that is no
\* uuid is rejected; then the flange spec must exist.
PostItem(sid, body) ==
  LET unchanged == [parts |-> partSelections, orders |-> stackOrders,
                    nid |-> nextPartId]
  IN  IF body.partType = None \/ body.flangeSpecId = None
      THEN [status |-> 400] @@ unchanged
      ELSE IF IsSome(body.spoolGroupId) /\ ~IsUuid(Val(body.spoolGroupId))
      THEN [status |-> 400] @@ unchanged
      ELSE IF getFlangeSpecById(flangeSpecs, Val(body.flangeSpecId)) = None
      THEN [status |-> 400] @@ unchanged
      ELSE LET r == addPartToStack([stackId |-> sid,
                                    partType |-> Val(body.partType),
                                    spoolGroupId |-> body.spoolGroupId,
                                    pressureValue |-> body.pressureValue,
                                    flangeSpecId |-> Val(body.flangeSpecId)],
                                   nextPartId)
           IN  IF r.ok
               THEN [status |-> 200, parts |-> r.parts, orders |-> r.orders,
                     nid |-> nextPartId + 1]
               ELSE [status |-> 500] @@ unchanged

\* PATCH /api/stack/:id/order.  A body whose orderedPartIds is no array
\* (None here) is answered 400; every array goes to updateStackOrder.
PatchOrder(sid, orderedPartIds) ==
  IF orderedPartIds = None
  THEN [status |-> 400, orders |-> stackOrders]
  ELSE LET r == updateStackOrder(sid, Val(orderedPartIds))
       IN  [status |-> IF r.ok THEN 200 ELSE 500, orders |-> r.orders]

(***************************************************************************)
(* The inputs of the model.                                                *)
(***************************************************************************)
RowA == FlangeFields("13-5/8", "5M", 8, "1-1/8", "13-5/8 5M", "BX-158",
                     Some(5000), Some(5000))

\* The batches ingested in the specifications about the stack
StackBatches == {<<RowA>>}

StackRequestIds == 1..MaxStacks
PartRequestIds == 1..MaxParts
SpecRequestIds == 1..MaxCatalog

\* Request bodies of POST /api/stack/:id/items: a part type of each class
\* with and without a pressure value, one side of a spool group, one with a
\* group id that is no uuid, and a body that lacks the required fields.
ApiBodyShapes ==
  {<<"ANNULAR", None, Some(5000)>>, <<"ANNULAR", None, None>>,
   <<"ANACONDA_LINES", None, None>>, <<"ANACONDA_LINES", None, Some(5000)>>,
   <<"ADAPTER_SPOOL_SIDE", Some(GroupUuid), None>>,
   <<"ADAPTER_SPOOL_SIDE", Some(NumToString(MaxParts)), None>>}

ApiBodies ==
  {[partType |-> Some(b[1]), spoolGroupId |-> b[2], pressureValue |-> b[3],
    flangeSpecId |-> Some(f)] : b \in ApiBodyShapes, f \in SpecRequestIds}
  \cup {[partType |-> None, spoolGroupId |-> None, pressureValue |-> None,
         flangeSpecId |-> None]}

RECURSIVE SeqsUpTo(_, _)
SeqsUpTo(S, n) ==
  IF n = 0 THEN {<<>>}
  ELSE LET shorter == SeqsUpTo(S, n - 1)
       IN  shorter \cup {Append(q, x) : q \in shorter, x \in S}

\* Request bodies of PATCH /api/stack/:id/order
OrderBodies == {Some(q) : q \in SeqsUpTo(PartRequestIds, MaxOrderLen)} \cup {None}

(***************************************************************************)
(* The state after construction: empty tables, no configurator open.       *)
(***************************************************************************)
EmptyConfig ==
  [pressure |-> None, flangeSize |-> None, boltCount |-> None,
   boltSize |-> None, selectedFlangeSpec |-> None, side1Spec |-> None,
   side2Spec |-> None, currentSide |-> None]

\* No response received yet
NoResponse == [op |-> "none", request |-> <<>>, status |-> 0, body |-> <<>>]

Init ==
  /\ flangeSpecs = {}
  /\ nextSpecId = 1
  /\ stackHeaders = {}
  /\ nextStackId = 1
  /\ partSelections = {}
  /\ nextPartId = 1
  /\ stackOrders = {}
  /\ currentStackId = None
  /\ showPartTypeModal = FALSE
  /\ partType = "none"
  /\ config = EmptyConfig
  /\ step = 1
  /\ toast = "none"
  /\ mutation = <<>>
  /\ response = NoResponse
  /\ pending = <<>>
  /\ clock = 0

(***************************************************************************)
(* Requests sent to the server directly.                                   *)
(***************************************************************************)

\* POST /api/ingest with a file that parses to specs
Ingest(specs) ==
  LET r == insertFlangeSpecs(flangeSpecs, nextSpecId, specs)
  IN  /\ Cardinality(r.table) <= MaxCatalog
      /\ flangeSpecs' = r.table
      /\ nextSpecId' = r.nid
      /\ UNCHANGED <<stackHeaders, nextStackId, partSelections, nextPartId,
                     stackOrders, clientVars, ioVars>>

\* POST /api/stack
CreateStack ==
  /\ nextStackId <= MaxStacks
  /\ stackHeaders' = stackHeaders \cup {nextStackId}
  /\ nextStackId' = nextStackId + 1
  /\ UNCHANGED <<flangeSpecs, nextSpecId, partSelections, nextPartId,
                 stackOrders, clientVars, ioVars>>

\* POST /api/stack/:id/items
AddItem(sid, body) ==
  LET r == PostItem(sid, body)
  IN  /\ nextPartId <= MaxParts
      /\ partSelections' = r.parts
      /\ stackOrders' = r.orders
      /\ nextPartId' = r.nid
      /\ UNCHANGED <<flangeSpecs, nextSpecId, stackHeaders, nextStackId,
                     clientVars, ioVars>>

\* PATCH /api/stack/:id/order
Reorder(sid, orderedPartIds) ==
  LET r == PatchOrder(sid, orderedPartIds)
  IN  /\ stackOrders' = r.orders
      /\ UNCHANGED <<flangeSpecs, nextSpecId, stackHeaders, nextStackId,
                     partSelections, nextPartId, clientVars, ioVars>>

\* DELETE /api/stack/:stackId/items/:partId; the stack id is not used.
RemoveItem(sid, partId) ==
  LET r == removePartFromStack(partId)
  IN  /\ partSelections' = r.parts
      /\ stackOrders' = r.orders
      /\ UNCHANGED <<flangeSpecs, nextSpecId, stackHeaders, nextStackId,
                     nextPartId, clientVars, ioVars>>

\* DELETE /api/stack/:id
DeleteStack(sid) ==
  LET r == deleteStack(sid)
  IN  /\ stackHeaders' = r.stacks
      /\ partSelections' = r.parts
      /\ stackOrders' = r.orders
      /\ UNCHANGED <<flangeSpecs, nextSpecId, nextStackId, nextPartId,
                     clientVars, ioVars>>

\* The outcomes of the import script: 0 when it ran through, 1 when a
\* statement threw and the error was logged.
ImportOutcome(code) ==
  [op |-> "import", request |-> <<>>, status |-> code, body |-> <<>>]

\* The rows of a plain insert of specs with fresh ids
FreshRows(nid, specs) == {WithId(specs[i], nid + i - 1) : i \in 1..Len(specs)}

\* importFlangeData as it would be if flange_spec rows could be deleted
\* while parts refer to them.
ImportIgnoringReferences(specs) ==
  /\ nextSpecId + Len(specs) <= MaxCatalog + 1
  /\ flangeSpecs' = FreshRows(nextSpecId, specs)
  /\ nextSpecId' = nextSpecId + Len(specs)
  /\ response' = ImportOutcome(0)
  /\ UNCHANGED <<stackHeaders, nextStackId, partSelections, nextPartId,
                 stackOrders, clientVars, pending, clock>>

\* server/scripts/importFlangeData.ts, the bulk replacement of the catalog:
\* delete every flange_spec row, then insert the rows of the file.  The
\* delete violates the foreign key of part_selection when a part refers to a
\* row: it throws and nothing has changed.  The insert throws on two rows
\* with one natural key, after the delete.
ImportFlangeData(specs) ==
  IF \E p \in partSelections : p.flangeSpecId \in SpecIds
  THEN /\ response' = ImportOutcome(1)
       /\ UNCHANGED <<serverVars, clientVars, pending, clock>>
  ELSE /\ nextSpecId + Len(specs) <= MaxCatalog + 1
       /\ IF BatchKeysDistinct(specs)
          THEN /\ flangeSpecs' = FreshRows(nextSpecId, specs)
               /\ nextSpecId' = nextSpecId + Len(specs)
               /\ response' = ImportOutcome(0)
          ELSE /\ flangeSpecs' = {}
               /\ response' = ImportOutcome(1)
               /\ UNCHANGED nextSpecId
       /\ UNCHANGED <<stackHeaders, nextStackId, partSelections, nextPartId,
                      stackOrders, clientVars, pending, clock>>

IngestStep == \E specs \in StackBatches : Ingest(specs)
AddItemStep == \E sid \in StackRequestIds, body \in ApiBodies : AddItem(sid, body)
ReorderStep == \E sid \in StackRequestIds, ids \in OrderBodies : Reorder(sid, ids)
RemoveItemStep ==
  \E sid \in StackRequestIds, partId \in PartRequestIds : RemoveItem(sid, partId)
DeleteStackStep == \E sid \in StackRequestIds : DeleteStack(sid)

\* Any client of the HTTP interface, one request at a time.
Next ==
  \/ IngestStep
  \/ CreateStack
  \/ AddItemStep
  \/ ReorderStep
  \/ RemoveItemStep
  \/ DeleteStackStep

Spec == Init /\ [][Next]_vars

(***************************************************************************)
(* Sequential use of one server in which every reorder request carries a   *)
(* permutation of the current members of the stack it addresses, and the   *)
(* import script is run between requests.                                  *)
(***************************************************************************)
ListsOf(S) ==
  {f \in [1..Cardinality(S) -> S] :
     \A i, j \in 1..Cardinality(S) : f[i] = f[j] => i = j}

IsPermutationOf(ids, S) ==
  /\ Len(ids) = Cardinality(S)
  /\ {ids[i] : i \in 1..Len(ids)} = S

ReorderPermStep ==
  \E sid \in stackHeaders :
    \E ids \in ListsOf(Members(sid)) : Reorder(sid, Some(ids))

ImportStep == \E specs \in StackBatches : ImportFlangeData(specs)

NextSeq ==
  \/ IngestStep
  \/ CreateStack
  \/ AddItemStep
  \/ ReorderPermStep
  \/ RemoveItemStep
  \/ DeleteStackStep
  \/ ImportStep

SpecSeq == Init /\ [][NextSeq]_vars

(***************************************************************************)
(* The client: Home, PartTypeModal, PartConfiguration and useStack.        *)
(***************************************************************************)

\* PartTypeModal.partTypes: the part types a configurator is opened for
PartTypeValue ==
  {"ANNULAR", "SINGLE_RAM", "DOUBLE_RAMS", "MUD_CROSS",
   "ANACONDA_LINES", "ROTATING_HEAD", "ADAPTER_SPOOL"}

isPressureDriven(pt) == pt \in PRESSURE_DRIVEN_PARTS
isAdapterSpool(pt) == pt = "ADAPTER_SPOOL"

\* PartConfiguration.flangeFilters.  config.boltCount holds the text of the
\* select value that handleFlangeSelectionChange stored.
flangeFilters(pt, c) ==
  [part |-> IF isAdapterSpool(pt) THEN None ELSE Some(pt),
   pressure |-> c.pressure, flangeSize |-> c.flangeSize,
   boltCount |-> c.boltCount, boltSize |-> c.boltSize]

\* The query string of the request for a query key: every field that is set
\* becomes a parameter holding the text of its value.
QueryOf(f) ==
  [part |-> f.part,
   pressure |-> IF IsSome(f.pressure) THEN Some(NumToString(Val(f.pressure)))
                ELSE None,
   flangeSize |-> f.flangeSize, boltCount |-> f.boltCount,
   boltSize |-> f.boltSize]

\* JavaScript truthiness of an optional text of digits
TruthyText(o) == IsSome(o) /\ Val(o) # <<>>

\* GET /api/options/flanges: the filters the route hands to getFlangeSpecs
RouteFilters(query) ==
  [partType |-> query.part,
   pressure |-> IF TruthyText(query.pressure)
                THEN Some(ParseInt(Val(query.pressure))) ELSE None,
   flangeSize |-> query.flangeSize,
   boltCount |-> IF TruthyText(query.boltCount)
                 THEN Some(ParseInt(Val(query.boltCount))) ELSE None,
   boltSize |-> query.boltSize]

\* GET /api/options/flanges: the rows of the response
GetFlanges(table, query) == getFlangeSpecsRows(table, RouteFilters(query))

\* PartConfiguration.flangeOptions for part type pt and ConfigState c
flangeOptions(pt, c) == GetFlanges(flangeSpecs, QueryOf(flangeFilters(pt, c)))

\* PartConfiguration.pressureOptions (GET /api/options/pressures)
pressureOptions(pt) ==
  IF isPressureDriven(pt) THEN getPressureOptions(flangeSpecs, pt) ELSE <<>>

uniqueFlangeSizes(pt, c) == {f.flangeSizeRaw : f \in flangeOptions(pt, c)}
uniqueBoltCounts(pt, c) == {f.boltCount : f \in flangeOptions(pt, c)}
uniqueBoltSizes(pt, c) == {f.sizeOfBolts : f \in flangeOptions(pt, c)}

\* The values of the pressure select (step 1 of a pressure-driven part)
OfferedPressures(pt, st) ==
  IF isPressureDriven(pt) /\ st = 1
  THEN {NumToString(pressureOptions(pt)[i]) : i \in 1..Len(pressureOptions(pt))}
  ELSE {}

SelectFields == {"flangeSize", "boltCount", "boltSize"}

\* The values of the flange selects; the bolt count and bolt size selects are
\* rendered only when the candidates have more than one value.
OfferedValues(pt, c, st, field) ==
  IF isPressureDriven(pt) /\ st < 2 THEN {}
  ELSE CASE field = "flangeSize" -> uniqueFlangeSizes(pt, c)
         [] field = "boltCount" ->
              IF Cardinality(uniqueBoltCounts(pt, c)) > 1
              THEN {NumToString(n) : n \in uniqueBoltCounts(pt, c)} ELSE {}
         [] field = "boltSize" ->
              IF Cardinality(uniqueBoltSizes(pt, c)) > 1
              THEN uniqueBoltSizes(pt, c) ELSE {}

\* The effect that auto-selects the flange spec, run after every change of
\* the configurator's state or props.
AutoSelect(pt, c) ==
  LET specs == flangeOptions(pt, c)
  IN  IF Cardinality(specs) = 1 /\ c.selectedFlangeSpec = None
      THEN [c EXCEPT !.selectedFlangeSpec = Some(CHOOSE f \in specs : TRUE)]
      ELSE IF Cardinality(specs) # 1 /\ c.selectedFlangeSpec # None
      THEN [c EXCEPT !.selectedFlangeSpec = None]
      ELSE c

\* The configurator's state once the flange query has settled after a render
\* with part type pt and state c; key is the query key of the render before.
\* For the same key the data stay as they are.  For another key useQuery
\* gives the cached answer at once when the key was fetched before, and no
\* data (flangeOptions = []) until the answer arrives otherwise, in which
\* case the effect clears the selection first.
ConfigsAfterQuery(key, pt, c) ==
  IF flangeFilters(pt, c) = key THEN {AutoSelect(pt, c)}
  ELSE {AutoSelect(pt, c),
        AutoSelect(pt, [c EXCEPT !.selectedFlangeSpec = None])}

\* PartConfiguration.handlePressureChange
ConfigAfterPressure(pt, c, pressure) ==
  AutoSelect(pt, [c EXCEPT !.pressure = Some(ParseInt(pressure))])

\* PartConfiguration.handleFlangeSelectionChange
ConfigAfterSelection(pt, c, field, value) ==
  AutoSelect(pt, [c EXCEPT ![field] = Some(value), !.selectedFlangeSpec = None])

\* canComplete as it would be if one stored side were enough.
canCompleteEitherSide(pt, c) ==
  IF isAdapterSpool(pt) THEN c.side1Spec # None \/ c.side2Spec # None
  ELSE c.selectedFlangeSpec # None

\* PartConfiguration.canComplete
canComplete(pt, c) ==
  IF isAdapterSpool(pt) THEN c.side1Spec # None /\ c.side2Spec # None
  ELSE c.selectedFlangeSpec # None

\* useStack.currentStack: the data of the query for the current stack
currentStack ==
  IF currentStackId # None /\ Val(currentStackId) \in stackHeaders
  THEN currentStackId ELSE None

\* The request bodies addPartMutation sends for partData, in order
RequestsOf(partData) ==
  IF partData.partType = "ADAPTER_SPOOL_SIDE" /\ partData.sides # <<>>
  THEN [i \in 1..Len(partData.sides) |->
          [partType |-> Some("ADAPTER_SPOOL_SIDE"),
           spoolGroupId |-> partData.spoolGroupId,
           pressureValue |-> partData.sides[i].pressureValue,
           flangeSpecId |-> Some(partData.sides[i].flangeSpecId)]]
  ELSE <<[partType |-> Some(partData.partType), spoolGroupId |-> None,
          pressureValue |-> partData.pressureValue,
          flangeSpecId |-> Some(partData.flangeSpecId)]>>

\* The partData handleComplete passes to onComplete; None when it passes
\* nothing.  The group id of a spool is the text of the clock's reading.
CompletedPartData(pt, c, now) ==
  IF isAdapterSpool(pt) /\ c.side1Spec # None /\ c.side2Spec # None
  THEN Some([partType |-> "ADAPTER_SPOOL_SIDE",
             spoolGroupId |-> Some(NumToString(now)),
             sides |-> <<[flangeSpecId |-> Val(c.side1Spec).id,
                          pressureValue |-> None],
                         [flangeSpecId |-> Val(c.side2Spec).id,
                          pressureValue |-> None]>>,
             flangeSpecId |-> 0, pressureValue |-> None])
  ELSE IF c.selectedFlangeSpec # None
  THEN Some([partType |-> pt, spoolGroupId |-> None, sides |-> <<>>,
             flangeSpecId |-> Val(c.selectedFlangeSpec).id,
             pressureValue |-> IF c.pressure # None /\ Val(c.pressure) # 0
                               THEN c.pressure ELSE None])
  ELSE None

\* Home.handleAddPart: create a stack when there is none, then open the part
\* type dialog.
HandleAddPart ==
  /\ ~showPartTypeModal
  /\ showPartTypeModal' = TRUE
  /\ IF currentStack = None
     THEN /\ nextStackId <= MaxStacks
          /\ stackHeaders' = stackHeaders \cup {nextStackId}
          /\ nextStackId' = nextStackId + 1
          /\ currentStackId' = Some(nextStackId)
          /\ toast' = "Stack Created"
     ELSE UNCHANGED <<stackHeaders, nextStackId, currentStackId, toast>>
  /\ UNCHANGED <<ioVars, flangeSpecs, nextSpecId, partSelections, nextPartId,
                 stackOrders, partType, config, step, mutation>>

\* Home.handleSelectPartType.  A configurator that is already open stays
\* mounted and keeps its state; only its partType prop changes.
HandleSelectPartType(pt) ==
  /\ showPartTypeModal
  /\ showPartTypeModal' = FALSE
  /\ partType' = pt
  /\ config' \in IF partType = "none" THEN {AutoSelect(pt, config)}
                ELSE ConfigsAfterQuery(flangeFilters(partType, config),
                                       pt, config)
  /\ UNCHANGED <<ioVars, serverVars, currentStackId, step, toast, mutation>>

\* PartTypeModal.onClose
ClosePartTypeModal ==
  /\ showPartTypeModal
  /\ showPartTypeModal' = FALSE
  /\ UNCHANGED <<ioVars, serverVars, currentStackId, partType, config, step, toast,
                 mutation>>

\* PartConfiguration.onCancel: the configurator is unmounted; the next one
\* starts from the initial state.
OnCancel ==
  /\ partType # "none"
  /\ partType' = "none"
  /\ config' = EmptyConfig
  /\ step' = 1
  /\ UNCHANGED <<ioVars, serverVars, currentStackId, showPartTypeModal, toast, mutation>>

\* PartConfiguration.handlePressureChange with a value of the pressure select
HandlePressureChange(pressure) ==
  /\ partType # "none"
  /\ pressure \in OfferedPressures(partType, step)
  /\ config' \in ConfigsAfterQuery(
                  flangeFilters(partType, config), partType,
                  [config EXCEPT !.pressure = Some(ParseInt(pressure))])
  /\ step' = 2
  /\ UNCHANGED <<ioVars, serverVars, currentStackId, showPartTypeModal, partType,
                 toast, mutation>>

\* PartConfiguration.handleFlangeSelectionChange with a value of a select
HandleFlangeSelectionChange(field, value) ==
  /\ partType # "none"
  /\ value \in OfferedValues(partType, config, step, field)
  /\ config' = ConfigAfterSelection(partType, config, field, value)
  /\ UNCHANGED <<ioVars, serverVars, currentStackId, showPartTypeModal, partType,
                 step, toast, mutation>>

\* PartConfiguration.handleAdapterSpoolSideComplete, the "Configure Side 2"
\* button, which is rendered while a spec is selected and side 2 is not set.
HandleAdapterSpoolSideComplete ==
  /\ isAdapterSpool(partType)
  /\ config.selectedFlangeSpec # None
  /\ config.side2Spec = None
  /\ config' = AutoSelect(partType,
                 IF config.currentSide = Some(1)
                 THEN [config EXCEPT !.side1Spec = config.selectedFlangeSpec,
                                     !.currentSide = Some(2),
                                     !.flangeSize = None, !.boltCount = None,
                                     !.boltSize = None,
                                     !.selectedFlangeSpec = None]
                 ELSE [config EXCEPT !.side2Spec = config.selectedFlangeSpec])
  /\ UNCHANGED <<ioVars, serverVars, currentStackId, showPartTypeModal, partType,
                 step, toast, mutation>>

\* Home.handlePartConfigured up to the first request of addPartMutation
HandlePartConfigured(partData) ==
  /\ IF currentStack # None
     THEN mutation' = RequestsOf(partData)
     ELSE UNCHANGED mutation
  /\ UNCHANGED <<ioVars, serverVars, currentStackId, showPartTypeModal, partType,
                 config, step, toast>>

\* PartConfiguration.handleComplete; now is the clock's reading.
HandleComplete(now) ==
  /\ partType # "none"
  /\ mutation = <<>>
  /\ nextPartId <= MaxConfigParts
  /\ IF ~canComplete(partType, config)
     THEN /\ toast' = "Configuration Incomplete"
          /\ UNCHANGED <<ioVars, serverVars, currentStackId, showPartTypeModal,
                         partType, config, step, mutation>>
     ELSE IF CompletedPartData(partType, config, now) # None
     THEN HandlePartConfigured(Val(CompletedPartData(partType, config, now)))
     ELSE UNCHANGED vars

\* One request of addPartMutation.mutationFn and what follows it: a request
\* that is not answered 2xx rejects, which ends the mutation with the error
\* toast; after the last request the success toast is shown and
\* handlePartConfigured closes the configurator.
SendRequest ==
  /\ mutation # <<>>
  /\ LET r == PostItem(Val(currentStackId), Head(mutation))
     IN  /\ partSelections' = r.parts
         /\ stackOrders' = r.orders
         /\ nextPartId' = r.nid
         /\ IF r.status # 200
            THEN /\ mutation' = <<>>
                 /\ toast' = "Error"
                 /\ UNCHANGED <<partType, config, step>>
            ELSE /\ mutation' = Tail(mutation)
                 /\ IF Tail(mutation) = <<>>
                    THEN /\ toast' = "Part Added"
                         /\ partType' = "none"
                         /\ config' = EmptyConfig
                         /\ step' = 1
                    ELSE UNCHANGED <<toast, partType, config, step>>
  /\ UNCHANGED <<ioVars, flangeSpecs, nextSpecId, stackHeaders, nextStackId,
                 currentStackId, showPartTypeModal>>

\* useStack.clearStack (deleteStackMutation): DELETE /api/stack/:id, then the
\* client has no current stack.
ClearStack ==
  /\ mutation = <<>>
  /\ IF currentStackId = None
     THEN /\ toast' = "Error"
          /\ UNCHANGED <<stackHeaders, partSelections, stackOrders, currentStackId>>
     ELSE LET r == deleteStack(Val(currentStackId))
          IN  /\ stackHeaders' = r.stacks
              /\ partSelections' = r.parts
              /\ stackOrders' = r.orders
              /\ currentStackId' = None
              /\ toast' = "Stack Cleared"
  /\ UNCHANGED <<ioVars, flangeSpecs, nextSpecId, nextStackId, nextPartId,
                 showPartTypeModal, partType, config, step, mutation>>

(***************************************************************************)
(* One user working through the configurator.  The catalog is loaded while *)
(* no configurator is open and no part is stored.                          *)
(***************************************************************************)
RowB == FlangeFields("13-5/8", "5M", 12, "1-1/4", "13-5/8 5M", "BX-158",
                     None, Some(10000))
RowC == FlangeFields("11", "5M", 8, "1-1/8", "", "R-54", Some(10000), None)

ConfigBatches == {<<RowA>>, <<RowB>>, <<RowC>>}

\* Two pressure-driven part types, a geometry-driven one and the spool
ConfigPartTypes == {"ANNULAR", "SINGLE_RAM", "ANACONDA_LINES", "ADAPTER_SPOOL"}

\* The readings of the clock
ClockReadings == {7, 8}

IngestConfigStep ==
  /\ partType = "none"
  /\ ~showPartTypeModal
  /\ partSelections = {}
  /\ \E specs \in ConfigBatches : Ingest(specs)

SelectPartTypeStep == \E pt \in ConfigPartTypes : HandleSelectPartType(pt)

PressureChangeStep ==
  \E pressure \in OfferedPressures(partType, step) : HandlePressureChange(pressure)

FlangeSelectionStep ==
  \E field \in SelectFields :
    \E value \in OfferedValues(partType, config, step, field) :
      HandleFlangeSelectionChange(field, value)

CompleteStep == \E now \in ClockReadings : HandleComplete(now)

NextConfig ==
  \/ IngestConfigStep
  \/ HandleAddPart
  \/ SelectPartTypeStep
  \/ OnCancel
  \/ PressureChangeStep
  \/ FlangeSelectionStep
  \/ HandleAdapterSpoolSideComplete
  \/ CompleteStep
  \/ SendRequest

SpecConfig == Init /\ [][NextConfig]_vars

(***************************************************************************)
(* useStack.addPartToStack called with a completed Adapter Spool, as       *)
(* handleComplete passes it to Home.handlePartConfigured.  The flange spec *)
(* of a side may be missing from the catalog.                              *)
(***************************************************************************)
\* The group ids of the spools passed to the hook: a uuid, and the texts of
\* clock readings that handleComplete generates.
SpoolGroupIds == {GroupUuid} \cup {NumToString(now) : now \in ClockReadings}

SpoolPartData ==
  {[partType |-> "ADAPTER_SPOOL_SIDE", spoolGroupId |-> Some(g),
    sides |-> <<[flangeSpecId |-> a, pressureValue |-> None],
                [flangeSpecId |-> b, pressureValue |-> None]>>,
    flangeSpecId |-> 0, pressureValue |-> None] :
     a \in SpecRequestIds, b \in SpecRequestIds, g \in SpoolGroupIds}

ConfiguredSpoolStep ==
  /\ mutation = <<>>
  /\ nextPartId < MaxParts
  /\ \E partData \in SpoolPartData : HandlePartConfigured(partData)

RemoveWhenIdleStep ==
  /\ mutation = <<>>
  /\ RemoveItemStep

NextHook ==
  \/ IngestStep
  \/ HandleAddPart
  \/ ConfiguredSpoolStep
  \/ SendRequest
  \/ RemoveWhenIdleStep
  \/ ClearStack
  \/ ClosePartTypeModal

SpecHook == Init /\ [][NextHook]_vars

(***************************************************************************)
(* Readers of the option endpoints.  The catalog is loaded, one batch at a *)
(* time, before the first of them asks.                                    *)
(***************************************************************************)
\* GET /api/options/flanges
OptionsFlanges(query) ==
  /\ \E list \in getFlangeSpecs(flangeSpecs, RouteFilters(query)) :
       response' = [op |-> "flanges", request |-> query, status |-> 200,
                    body |-> list]
  /\ UNCHANGED <<serverVars, clientVars, pending, clock>>

\* GET /api/options/pressures; part is the query parameter (None when absent)
OptionsPressures(part) ==
  /\ response' =
       IF ~TruthyStr(part)
       THEN [op |-> "pressures", request |-> part, status |-> 400,
             body |-> <<>>]
       ELSE [op |-> "pressures", request |-> part, status |-> 200,
             body |-> getPressureOptions(flangeSpecs, Val(part))]
  /\ UNCHANGED <<serverVars, clientVars, pending, clock>>

\* A row with a negative pressure, as parseNullableNumber keeps it, and a
\* row that repeats the annular pressure of RowA
RowD == FlangeFields("11", "10M", 8, "1-1/8", "11 5M", "R-54",
                     Some(0 - 500), None)
RowE == FlangeFields("13-5/8", "10M", 12, "1-1/4", "13-5/8 10M", "BX-159",
                     Some(5000), Some(10000))

OptionBatches == {<<RowA>>, <<RowB>>, <<RowC>>, <<RowD>>, <<RowE>>}

\* The values of the part parameter: the seven part types, the empty text,
\* the name the client uses for a spool, and a name nothing uses
CategoryValues == PartType \cup {"", "ADAPTER_SPOOL", "INVALID_PART_TYPE"}

OptionParts == {None} \cup {Some(c) : c \in CategoryValues}

OptionQueries ==
  [part : OptionParts,
   pressure : {None, Some(NumToString(5000))},
   flangeSize : {None, Some(""), Some("11 5M")},
   boltCount : {None, Some(NumToString(8))},
   boltSize : {None, Some("1-1/8")}]

IngestOptionsStep ==
  /\ response = NoResponse
  /\ \E specs \in OptionBatches : Ingest(specs)
OptionsFlangesStep == \E query \in OptionQueries : OptionsFlanges(query)
OptionsPressuresStep == \E part \in OptionParts : OptionsPressures(part)

NextOptions ==
  \/ IngestOptionsStep
  \/ OptionsFlangesStep
  \/ OptionsPressuresStep

SpecOptions == Init /\ [][NextOptions]_vars

(***************************************************************************)
(* One writer whose storage call runs statement by statement, each         *)
(* statement committed on its own, and readers of GET /api/stack/:id       *)
(* between the statements.                                                 *)
(***************************************************************************)
\* What get may return for a stack, as lists of part ids
OrdersSeen(sid) == {IdsOf(parts) : parts \in getStackWithParts(sid)}

\* A storage call between two of its statements.  before keeps what get
\* returned for the stack when the call began.
Statement(op, sid, partId, ids) ==
  [op |-> op, stackId |-> sid, partSelectionId |-> partId, ids |-> ids,
   before |-> OrdersSeen(sid)]

\* POST /api/stack/:id/items up to the first statement of addPartToStack,
\* the insert into part_selection.
BeginAppend(sid, body) ==
  /\ pending = <<>>
  /\ nextPartId <= MaxParts
  /\ LET r == PostItem(sid, body)
     IN  /\ partSelections' = r.parts
         /\ nextPartId' = r.nid
         /\ pending' = IF r.status = 200
                       THEN <<Statement("insertOrder", sid, nextPartId, <<>>)>>
                       ELSE <<>>
  /\ UNCHANGED <<flangeSpecs, nextSpecId, stackHeaders, nextStackId,
                 stackOrders, clientVars, response, clock>>

\* The rest of addPartToStack: select the positions of the stack and insert
\* the ordering row of the new part.
FinishAppend ==
  /\ pending # <<>>
  /\ pending[1].op = "insertOrder"
  /\ stackOrders' = stackOrders \cup
       {[stackId |-> pending[1].stackId,
         partSelectionId |-> pending[1].partSelectionId,
         position |-> NextPosition(stackOrders, pending[1].stackId)]}
  /\ pending' = <<>>
  /\ UNCHANGED <<flangeSpecs, nextSpecId, stackHeaders, nextStackId,
                 partSelections, nextPartId, clientVars, response, clock>>

\* PATCH /api/stack/:id/order up to the first statement of updateStackOrder,
\* the delete of the ordering rows of the stack.
BeginReorder(sid, orderedPartIds) ==
  /\ pending = <<>>
  /\ stackOrders' = {o \in stackOrders : o.stackId # sid}
  /\ pending' = IF Len(orderedPartIds) > 0
                THEN <<Statement("insertOrders", sid, 0, orderedPartIds)>>
                ELSE <<>>
  /\ UNCHANGED <<flangeSpecs, nextSpecId, stackHeaders, nextStackId,
                 partSelections, nextPartId, clientVars, response, clock>>

\* The rest of updateStackOrder: the insert of the new ordering rows, which
\* stores nothing when a row violates a foreign key.
FinishReorder ==
  /\ pending # <<>>
  /\ pending[1].op = "insertOrders"
  /\ stackOrders' =
       IF \/ pending[1].stackId \notin stackHeaders
          \/ \E i \in 1..Len(pending[1].ids) : pending[1].ids[i] \notin PartIds
       THEN stackOrders
       ELSE stackOrders \cup
              {[stackId |-> pending[1].stackId,
                partSelectionId |-> pending[1].ids[i],
                position |-> i - 1] : i \in 1..Len(pending[1].ids)}
  /\ pending' = <<>>
  /\ UNCHANGED <<flangeSpecs, nextSpecId, stackHeaders, nextStackId,
                 partSelections, nextPartId, clientVars, response, clock>>

\* GET /api/stack/:id
GetStack(sid) ==
  /\ IF getStackWithParts(sid) = {}
     THEN response' = [op |-> "get", request |-> sid, status |-> 404,
                       body |-> <<>>]
     ELSE \E parts \in getStackWithParts(sid) :
            response' = [op |-> "get", request |-> sid, status |-> 200,
                         body |-> parts]
  /\ UNCHANGED <<serverVars, clientVars, pending, clock>>

\* The bodies of the appends: a geometry-driven part on each flange spec id
ConcBodies ==
  {[partType |-> Some("ANACONDA_LINES"), spoolGroupId |-> None,
    pressureValue |-> None, flangeSpecId |-> Some(f)] : f \in SpecRequestIds}

BeginAppendStep ==
  \E sid \in StackRequestIds, body \in ConcBodies : BeginAppend(sid, body)

BeginReorderStep ==
  \E sid \in stackHeaders :
    \E ids \in ListsOf(Members(sid)) : BeginReorder(sid, ids)

GetStackStep == \E sid \in StackRequestIds : GetStack(sid)

NextConc ==
  \/ IngestStep
  \/ CreateStack
  \/ BeginAppendStep
  \/ FinishAppend
  \/ BeginReorderStep
  \/ FinishReorder
  \/ GetStackStep

SpecConc == Init /\ [][NextConc]_vars

(***************************************************************************)
(* C1.  Every stored part instance has a pressure value if and only if its *)
(* part type is one of the pressure-driven types.                          *)
(***************************************************************************)
C1_PressureIffPressureDriven ==
  \A p \in partSelections :
    IsSome(p.pressureValue) <=> p.partType \in PRESSURE_DRIVEN_PARTS

(***************************************************************************)
(* C2.  Every spool group id present among the stored part instances is    *)
(* shared by exactly two of them.                                          *)
(***************************************************************************)
GroupMembers(g) == {p \in partSelections : p.spoolGroupId = g}

C2_GroupsArePairs ==
  \A p \in partSelections :
    IsSome(p.spoolGroupId) => Cardinality(GroupMembers(p.spoolGroupId)) = 2

(***************************************************************************)
(* C3.  A reorder request whose id list is not a permutation of the        *)
(* current members of the stack is answered with an error and leaves the   *)
(* ordering rows of the stack, and what get returns for it, unchanged.     *)
(***************************************************************************)
C3_NonPermutationRejected ==
  [][\A sid \in StackRequestIds :
       \A ids \in SeqsUpTo(PartRequestIds, MaxOrderLen) :
         (Reorder(sid, Some(ids)) /\ ~IsPermutationOf(ids, Members(sid)))
           => /\ PatchOrder(sid, Some(ids)).status >= 400
              /\ OrdersOf(sid)' = OrdersOf(sid)
              /\ getStackWithParts(sid)' = getStackWithParts(sid)]_vars

(***************************************************************************)
(* C4.  With permutation reorders only: every member of a stack has        *)
(* exactly one ordering row, which is a row of that stack, no two members  *)
(* share a position, and every list get may return holds every member      *)
(* exactly once.                                                           *)
(***************************************************************************)
OrdersOfPart(partId) == {o \in stackOrders : o.partSelectionId = partId}

C4_OnePositionPerMember ==
  \A sid \in stackHeaders :
    /\ \A p \in PartsOf(sid) :
         /\ Cardinality(OrdersOfPart(p.id)) = 1
         /\ OrdersOfPart(p.id) \subseteq OrdersOf(sid)
    /\ \A o1, o2 \in OrdersOf(sid) :
         o1.position = o2.position => o1 = o2
    /\ getStackWithParts(sid) # {}
    /\ \A parts \in getStackWithParts(sid) :
         IsPermutationOf(IdsOf(parts), Members(sid))

\* A stack from which a part was removed and whose two remaining members
\* were reordered against their order of creation.
C4_Witness ==
  /\ nextPartId = 4
  /\ \E sid \in stackHeaders :
       /\ Cardinality(Members(sid)) = 2
       /\ \E o1, o2 \in OrdersOf(sid) :
            /\ o1.partSelectionId < o2.partSelectionId
            /\ o1.position > o2.position

(***************************************************************************)
(* C5.  As claimed: the stored positions of a stack with n members are     *)
(* exactly 0..n-1 at all times.                                            *)
(***************************************************************************)
Positions(sid) == {o.position : o \in OrdersOf(sid)}
Dense(sid) == Positions(sid) = 0..(Cardinality(Members(sid)) - 1)

DistinctPositions(sid) ==
  /\ Cardinality(OrdersOf(sid)) = Cardinality(Members(sid))
  /\ Cardinality(Positions(sid)) = Cardinality(Members(sid))
  /\ \A pos \in Positions(sid) : pos >= 0

AwaitingSide1(c) == c.side1Spec = None /\ c.side2Spec = None
AwaitingSide2(c) == c.side1Spec # None /\ c.side2Spec = None
Complete(c) == c.side1Spec # None /\ c.side2Spec # None

C6_TwoConfirmations ==
  [][HandleAdapterSpoolSideComplete =>
       /\ AwaitingSide1(config) =>
            /\ config'.side1Spec = config.selectedFlangeSpec
            /\ AwaitingSide2(config')
       /\ AwaitingSide2(config) =>
            /\ config'.side2Spec = config.selectedFlangeSpec
            /\ Complete(config')
            /\ canComplete(partType, config')]_vars

(***************************************************************************)
(* C7.  handleComplete on an Adapter Spool configurator that does not hold *)
(* both side records is refused: it shows the "Configuration Incomplete"   *)
(* toast, starts no add-part request and changes nothing on the server.    *)
(* No add-part request for a spool starts, and no spool part is stored,    *)
(* unless the configurator holds both side records.                        *)
(***************************************************************************)
SpoolTypes == {"ADAPTER_SPOOL", "ADAPTER_SPOOL_SIDE"}

SpoolRequests(q) ==
  {i \in 1..Len(q) : IsSome(q[i].partType) /\ Val(q[i].partType) \in SpoolTypes}

C7_NoAppendBeforeComplete ==
  /\ [](\A p \in partSelections : p.partType \notin SpoolTypes)
  /\ [][/\ (CompleteStep /\ isAdapterSpool(partType) /\ ~Complete(config))
              => /\ toast' = "Configuration Incomplete"
                 /\ mutation' = <<>>
                 /\ UNCHANGED serverVars
        /\ (mutation' # mutation /\ SpoolRequests(mutation') # {})
              => isAdapterSpool(partType) /\ Complete(config)]_vars

\* Add to Stack was refused on a spool configurator that holds one side.
C7_Witness ==
  /\ isAdapterSpool(partType)
  /\ config.side2Spec # None
  /\ ~Complete(config)
  /\ toast = "Configuration Incomplete"
  /\ mutation = <<>>
  /\ partSelections = {}

Eligible(pt, r) == isPressureDriven(pt) => IsSome(PressureColumn(pt, r))

FilterBags(pt) ==
  [partType : {IF isAdapterSpool(pt) THEN None ELSE Some(pt)},
   pressure : {None} \cup (IF isPressureDriven(pt)
                           THEN {PressureColumn(pt, r) : r \in flangeSpecs}
                           ELSE {}),
   flangeSize : {None} \cup {Some(r.flangeSizeRaw) : r \in flangeSpecs},
   boltCount : {None} \cup {Some(r.boltCount) : r \in flangeSpecs},
   boltSize : {None} \cup {Some(r.sizeOfBolts) : r \in flangeSpecs}]

C9_EveryRecordReachable ==
  \A r \in flangeSpecs :
    \A pt \in PartTypeValue :
      Eligible(pt, r)
        => \E filters \in FilterBags(pt) :
             getFlangeSpecs(flangeSpecs, filters) = {<<r>>}

(***************************************************************************)
(* C10.  Every value a select of the open configurator offers gives at     *)
(* least one flange option when it is chosen next.                         *)
(***************************************************************************)
C10_NoDeadEndOptions ==
  partType # "none" =>
    /\ \A pressure \in OfferedPressures(partType, step) :
         flangeOptions(partType,
                       ConfigAfterPressure(partType, config, pressure)) # {}
    /\ \A field \in SelectFields :
         \A value \in OfferedValues(partType, config, step, field) :
           flangeOptions(partType,
                         ConfigAfterSelection(partType, config, field, value)) # {}

(***************************************************************************)
(* C11.  For a request of GET /api/options/flanges that names one of the   *)
(* seven part types, the response is the list of exactly the catalog       *)
(* records that meet the part type's constraint (pressure-driven: the      *)
(* type's pressure column equals the pressure when one is supplied, is     *)
(* set otherwise; the other types: none) and equal every supplied flange   *)
(* size, bolt count and bolt size filter, each record once, in ascending   *)
(* order of the raw size label; an empty list is a normal answer.          *)
(***************************************************************************)
CategoryConstraint(pt, pressure, r) ==
  pt \in PRESSURE_DRIVEN_PARTS =>
    IF IsSome(pressure) THEN PressureColumn(pt, r) = pressure
    ELSE IsSome(PressureColumn(pt, r))

ExactCandidates(query) ==
  {r \in flangeSpecs :
     /\ CategoryConstraint(Val(query.part),
                           IF IsSome(query.pressure)
                           THEN Some(ParseInt(Val(query.pressure))) ELSE None,
                           r)
     /\ IsSome(query.flangeSize) => r.flangeSizeRaw = Val(query.flangeSize)
     /\ IsSome(query.boltCount) => r.boltCount = ParseInt(Val(query.boltCount))
     /\ IsSome(query.boltSize) => r.sizeOfBolts = Val(query.boltSize)}

AscendingByLabel(list) ==
  \A i, j \in 1..Len(list) :
    i < j => LabelRank(list[i].flangeSizeRaw) <= LabelRank(list[j].flangeSizeRaw)

C11_ExactSortedCandidates ==
  (/\ response.op = "flanges"
   /\ IsSome(response.request.part)
   /\ Val(response.request.part) \in PartType)
    => /\ response.status = 200
       /\ {response.body[i] : i \in 1..Len(response.body)}
            = ExactCandidates(response.request)
       /\ Len(response.body) = Cardinality(ExactCandidates(response.request))
       /\ AscendingByLabel(response.body)

(***************************************************************************)
(* C12.  A request of GET /api/options/flanges whose part parameter is not *)
(* one of the seven part types is answered with the empty list, whatever   *)
(* the other filters and the catalog hold.                                 *)
(***************************************************************************)
C12_UnknownCategoryGivesNothing ==
  (/\ response.op = "flanges"
   /\ IsSome(response.request.part)
   /\ Val(response.request.part) \notin PartType)
    => /\ response.status = 200
       /\ response.body = <<>>

(***************************************************************************)
(* C13.  getPressureOptions returns, for a pressure-driven part type, the  *)
(* values of that type's pressure column over the whole catalog that are   *)
(* set and greater than zero, each once, in ascending order; for every     *)
(* other part type and for every unrecognised value it returns the empty   *)
(* list.  GET /api/options/pressures answers 200 with that list.           *)
(***************************************************************************)
PositiveValues(pt) ==
  {v \in {Val(PressureColumn(pt, r)) :
            r \in {x \in flangeSpecs : IsSome(PressureColumn(pt, x))}} : v > 0}

IsPressureAnswer(list, c) ==
  IF c \in PRESSURE_DRIVEN_PARTS
  THEN /\ {list[i] : i \in 1..Len(list)} = PositiveValues(c)
       /\ \A i, j \in 1..Len(list) : i < j => list[i] < list[j]
  ELSE list = <<>>

C13_PressureOptions ==
  /\ \A c \in CategoryValues :
       IsPressureAnswer(getPressureOptions(flangeSpecs, c), c)
  /\ (response.op = "pressures" /\ response.status = 200)
       => IsPressureAnswer(response.body, Val(response.request))

\* The annular pressures were read from a catalog that holds a positive and
\* a negative one.
C13_Witness ==
  /\ response.op = "pressures"
  /\ response.request = Some("ANNULAR")
  /\ response.body = <<5000>>
  /\ \E r \in flangeSpecs :
       IsSome(r.annularPressure) /\ Val(r.annularPressure) < 0

(***************************************************************************)
(* C14.  In the configurator of a part type other than the Adapter Spool,  *)
(* a record is selected (Add to Stack is enabled) only while the flange    *)
(* options for the current filters are exactly one record, and it is that  *)
(* record; with no option or several no record is selected.  The request   *)
(* handleComplete starts carries the id of that one record.                *)
(***************************************************************************)
SelectionIsTheCandidate ==
  (partType # "none" /\ ~isAdapterSpool(partType))
    => /\ config.selectedFlangeSpec # None
            => flangeOptions(partType, config) = {Val(config.selectedFlangeSpec)}
       /\ Cardinality(flangeOptions(partType, config)) # 1
            => /\ config.selectedFlangeSpec = None
               /\ ~canComplete(partType, config)

C14_UniqueCandidateSubmitted ==
  /\ []SelectionIsTheCandidate
  /\ [][(CompleteStep /\ ~isAdapterSpool(partType) /\ mutation' # <<>>)
          => \E r \in flangeSpecs :
               /\ flangeOptions(partType, config) = {r}
               /\ Len(mutation') = 1
               /\ mutation'[1].flangeSpecId = Some(r.id)]_vars

(***************************************************************************)
(* C15.  When the first side of an Adapter Spool is confirmed and the      *)
(* configurator moves to side 2, the flange size, bolt count and bolt size *)
(* filters chosen for side 1 are cleared, so that the flange options of    *)
(* side 2 are the whole catalog, the record chosen for side 1 among them,  *)
(* and a record is selected only if the catalog holds no other.            *)
(***************************************************************************)
C15_Side2StartsFromFullCatalog ==
  [][(HandleAdapterSpoolSideComplete /\ AwaitingSide1(config))
       => /\ config'.flangeSize = None
          /\ config'.boltCount = None
          /\ config'.boltSize = None
          /\ flangeOptions(partType, config') = flangeSpecs
          /\ config.selectedFlangeSpec \in {Some(r) : r \in flangeSpecs}
          /\ config'.selectedFlangeSpec # None => Cardinality(flangeSpecs) = 1]_vars

(***************************************************************************)
(* C16.  After a reorder of a stack with a permutation p of its members,   *)
(* the position of every member is its index in p counted from 0, and get  *)
(* returns the members in the order p; as get has one possible answer, it  *)
(* returns that order every time until the tables change again.            *)
(***************************************************************************)
C16_ReorderSetsOrder ==
  [][\A sid \in stackHeaders :
       \A ids \in ListsOf(Members(sid)) :
         Reorder(sid, Some(ids))
           => /\ \A i \in 1..Len(ids) :
                   OrdersOfPart(ids[i])' =
                     {[stackId |-> sid, partSelectionId |-> ids[i],
                       position |-> i - 1]}
              /\ {IdsOf(parts) : parts \in getStackWithParts(sid)}' = {ids}]_vars

\* A stack of three members that get returns in an order other than the
\* order of creation, each at the position of its index.
C16_Witness ==
  \E sid \in stackHeaders :
    \E parts \in getStackWithParts(sid) :
      /\ getStackWithParts(sid) = {parts}
      /\ Len(parts) = 3
      /\ parts[1].id > parts[3].id
      /\ \A i \in 1..3 : {o.position : o \in OrdersOfPart(parts[i].id)} = {i - 1}

C18_RemoveOnlyThatMember ==
  [][\A sid \in StackRequestIds :
       \A partId \in PartIds :
         RemoveItem(sid, partId)
           => /\ partSelections' = {p \in partSelections : p.id # partId}
              /\ stackOrders' = stackOrders \ OrdersOfPart(partId)
              /\ UNCHANGED <<stackHeaders, flangeSpecs>>
              /\ \A s \in stackHeaders :
                   {IdsOf(parts) : parts \in getStackWithParts(s)}' =
                     {SelectSeq(IdsOf(parts), LAMBDA x : x # partId) :
                        parts \in getStackWithParts(s)}]_vars

\* The middle one of three members was removed: the stack holds the
\* positions 0 and 2, and get returns the two members in that order.
C18_Witness ==
  \E sid \in stackHeaders :
    /\ Positions(sid) = {0, 2}
    /\ Cardinality(Members(sid)) = 2
    /\ \A parts \in getStackWithParts(sid) :
         OrdersOfPart(parts[1].id) \subseteq {o \in stackOrders : o.position = 0}

OrdersAfter(call) ==
  IF call.op = "insertOrder"
  THEN {Append(ids, call.partSelectionId) : ids \in call.before}
  ELSE {call.ids}

C20_ReadersSeeBeforeOrAfter ==
  [][\A sid \in stackHeaders :
       (GetStack(sid) /\ pending # <<>> /\ pending[1].stackId = sid)
         => IdsOf(response'.body) \in
              pending[1].before \cup OrdersAfter(pending[1])]_vars

(***************************************************************************)
(* The report: server/services/pdfGenerator.ts renders the lines into the  *)
(* PDF, ReportModal renders them in the report view.  A line is the record *)
(* of the segments its template literal joins.                             *)
(***************************************************************************)
MaxClock == 1

\* Time passes on the database clock.
Tick ==
  /\ clock < MaxClock
  /\ clock' = clock + 1
  /\ UNCHANGED <<serverVars, clientVars, response, pending>>

\* String.fromCharCode('A'.charCodeAt(0) + i), i = 0, 1, ...
SpoolLetters == <<"A", "B", "C", "D", "E">>

\* The template literal of a line: the name, then " – Pressure p" or
\* " L — Side n" when present, then the six fields of the flange spec.
ReportLine(name, pressure, letter, side, flangeSpec) ==
  [name |-> name, pressure |-> pressure, letter |-> letter, side |-> side,
   ring |-> flangeSpec.ringNeeded, sizeOfBolts |-> flangeSpec.sizeOfBolts,
   boltCount |-> NumToString(flangeSpec.boltCount),
   flange |-> flangeSpec.flangeSizeRaw,
   wrench |-> NumToString(flangeSpec.wrenchNo),
   psi |-> NumToString(flangeSpec.truckUnitPsi)]

\* pdfGenerator.getPartDisplayName: the name and the pressure segment.  The
\* segment needs a pressure-driven part type and a truthy pressure (neither
\* null nor 0).
getPartDisplayName(pt, pressure) ==
  [baseName |-> CASE pt = "ANNULAR" -> "Annular"
                  [] pt = "SINGLE_RAM" -> "Single B.O.P (RAM)"
                  [] pt = "DOUBLE_RAMS" -> "Double B.O.P (RAMs)"
                  [] pt = "MUD_CROSS" -> "Mud Cross"
                  [] pt = "ANACONDA_LINES" -> "Anaconda Lines"
                  [] pt = "ROTATING_HEAD" -> "Rotating Head"
                  [] pt = "ADAPTER_SPOOL_SIDE" -> "Adapter Spool"
                  [] OTHER -> pt,
   pressure |-> IF /\ pt \in {"ANNULAR", "SINGLE_RAM", "DOUBLE_RAMS", "MUD_CROSS"}
                   /\ pressure # None /\ Val(pressure) # 0
                THEN Some(NumToString(Val(pressure))) ELSE None]

\* SpoolLines as it would be without the sort: the sides of a group in the
\* order of the stack.
SpoolLinesInStackOrder(sides, table) ==
  LET n == Len(sides)
      first == {i \in 1..n :
                  \A j \in 1..(i - 1) : sides[j].spoolGroupId # sides[i].spoolGroupId}
      firstAt(k) == CHOOSE i \in first : Cardinality({j \in first : j < i}) = k - 1
      InGroup(k, p) == p.spoolGroupId = sides[firstAt(k)].spoolGroupId
      members(k) == LET Test(p) == InGroup(k, p) IN SelectSeq(sides, Test)
      linesOf(k) ==
        LET spoolSides == members(k)
        IN  [index \in 1..Len(spoolSides) |->
               ReportLine("Adapter Spool", None, Some(SpoolLetters[k]),
                          Some(NumToString(index)),
                          Val(getFlangeSpecById(table, spoolSides[index].flangeSpecId)))]
      RECURSIVE From(_)
      From(k) == IF k > Cardinality(first) THEN <<>> ELSE linesOf(k) \o From(k + 1)
  IN  From(1)

\* The loop over spoolGroups, the same in both generators: the groups in
\* the order their first side was met (Map insertion order), the sides of a
\* group sorted by createdAt (Array.prototype.sort is stable), one letter
\* per group.  sides are parts whose spoolGroupId is set.
SpoolLines(sides, table) ==
  LET n == Len(sides)
      first == {i \in 1..n :
                  \A j \in 1..(i - 1) : sides[j].spoolGroupId # sides[i].spoolGroupId}
      firstAt(k) == CHOOSE i \in first : Cardinality({j \in first : j < i}) = k - 1
      InGroup(k, p) == p.spoolGroupId = sides[firstAt(k)].spoolGroupId
      members(k) == LET Test(p) == InGroup(k, p) IN SelectSeq(sides, Test)
      sorted(s) ==
        LET rank(i) == Cardinality({j \in 1..Len(s) :
                         \/ s[j].createdAt < s[i].createdAt
                         \/ s[j].createdAt = s[i].createdAt /\ j < i})
        IN  [r \in 1..Len(s) |-> s[CHOOSE i \in 1..Len(s) : rank(i) = r - 1]]
      linesOf(k) ==
        LET spoolSides == sorted(members(k))
        IN  [index \in 1..Len(spoolSides) |->
               ReportLine("Adapter Spool", None, Some(SpoolLetters[k]),
                          Some(NumToString(index)),
                          Val(getFlangeSpecById(table, spoolSides[index].flangeSpecId)))]
      RECURSIVE From(_)
      From(k) == IF k > Cardinality(first) THEN <<>> ELSE linesOf(k) \o From(k + 1)
  IN  From(1)

\* generateReportLines as it would be if a side without group were skipped.
generateReportLinesSkipping(parts, table) ==
  LET IsRegular(p) == p.partType # "ADAPTER_SPOOL_SIDE"
      IsSide(p) == p.partType = "ADAPTER_SPOOL_SIDE" /\ p.spoolGroupId # None
      regularParts == SelectSeq(parts, IsRegular)
  IN  [i \in 1..Len(regularParts) |->
         LET partName == getPartDisplayName(regularParts[i].partType,
                                            regularParts[i].pressureValue)
         IN  ReportLine(partName.baseName, partName.pressure, None, None,
                        Val(getFlangeSpecById(table, regularParts[i].flangeSpecId)))]
      \o SpoolLines(SelectSeq(parts, IsSide), table)

\* pdfGenerator.generateReportLines: a part is a spool side when its type is
\* ADAPTER_SPOOL_SIDE and its spoolGroupId is set, every other part is a
\* regular part.
generateReportLines(parts, table) ==
  LET IsSide(p) == p.partType = "ADAPTER_SPOOL_SIDE" /\ p.spoolGroupId # None
      IsRegular(p) == ~IsSide(p)
      regularParts == SelectSeq(parts, IsRegular)
  IN  [i \in 1..Len(regularParts) |->
         LET partName == getPartDisplayName(regularParts[i].partType,
                                            regularParts[i].pressureValue)
         IN  ReportLine(partName.baseName, partName.pressure, None, None,
                        Val(getFlangeSpecById(table, regularParts[i].flangeSpecId)))]
      \o SpoolLines(SelectSeq(parts, IsSide), table)

\* ReportModal.generateReportLines with its getPartDisplayName: the regular
\* parts are the parts of another type than ADAPTER_SPOOL_SIDE, and of the
\* sides only those with a spoolGroupId enter a group.  createdAt arrives as
\* the ISO text of the same instant, so new Date(...).getTime() is the
\* server's reading.
ReportModalLines(parts, table) ==
  LET IsRegular(p) == p.partType # "ADAPTER_SPOOL_SIDE"
      IsSide(p) == p.partType = "ADAPTER_SPOOL_SIDE"
      HasGroup(p) == p.spoolGroupId # None
      regularParts == SelectSeq(parts, IsRegular)
      spoolSides == SelectSeq(parts, IsSide)
      baseName(pt) == CASE pt = "ANNULAR" -> "Annular"
                        [] pt = "SINGLE_RAM" -> "Single B.O.P (RAM)"
                        [] pt = "DOUBLE_RAMS" -> "Double B.O.P (RAMs)"
                        [] pt = "MUD_CROSS" -> "Mud Cross"
                        [] pt = "ANACONDA_LINES" -> "Anaconda Lines"
                        [] pt = "ROTATING_HEAD" -> "Rotating Head"
                        [] OTHER -> pt
      pressureOf(p) == IF /\ p.partType \in {"ANNULAR", "SINGLE_RAM",
                                             "DOUBLE_RAMS", "MUD_CROSS"}
                          /\ p.pressureValue # None /\ Val(p.pressureValue) # 0
                       THEN Some(NumToString(Val(p.pressureValue))) ELSE None
  IN  [i \in 1..Len(regularParts) |->
         ReportLine(baseName(regularParts[i].partType),
                    pressureOf(regularParts[i]), None, None,
                    Val(getFlangeSpecById(table, regularParts[i].flangeSpecId)))]
      \o SpoolLines(SelectSeq(spoolSides, HasGroup), table)

\* POST /api/stack/:id/report: 404 without the stack, else generatePDF on
\* what getStackWithParts returned.  The body is what generateReportHTML
\* puts on the page: the lines and Total Parts.
GenerateReport(sid) ==
  /\ IF getStackWithParts(sid) = {}
     THEN response' = [op |-> "report", request |-> sid, status |-> 404,
                       body |-> <<>>]
     ELSE \E parts \in getStackWithParts(sid) :
            response' = [op |-> "report", request |-> sid, status |-> 200,
                         body |-> [parts |-> parts,
                                   lines |-> generateReportLines(parts, flangeSpecs),
                                   totalParts |-> Len(parts)]]
  /\ UNCHANGED <<serverVars, clientVars, pending, clock>>

\* ReportModal rendering the parts GET /api/stack/:id returned
ViewReport(sid) ==
  /\ \E parts \in getStackWithParts(sid) :
       response' = [op |-> "view", request |-> sid, status |-> 200,
                    body |-> [parts |-> parts,
                              lines |-> ReportModalLines(parts, flangeSpecs),
                              totalParts |-> Len(parts)]]
  /\ UNCHANGED <<serverVars, clientVars, pending, clock>>

\* The parts of the reports: pressure-driven with a pressure and with
\* pressure 0, geometry-driven with a stray pressure, sides of two
\* groups on either record (one with a stray pressure) and a side without
\* group.
ReportBodies ==
  LET Body(pt, g, p, f) == [partType |-> Some(pt), spoolGroupId |-> g,
                            pressureValue |-> p, flangeSpecId |-> Some(f)]
  IN  {Body("ANNULAR", None, Some(5000), 1), Body("ANNULAR", None, Some(0), 1),
       Body("ANACONDA_LINES", None, Some(5000), 2),
       Body("ADAPTER_SPOOL_SIDE", Some(GroupUuid), None, 1),
       Body("ADAPTER_SPOOL_SIDE", Some(GroupUuid), None, 2),
       Body("ADAPTER_SPOOL_SIDE", Some([GroupUuid EXCEPT ![1] = "6"]), Some(5000), 1),
       Body("ADAPTER_SPOOL_SIDE", None, None, 2)}

\* The stack is built first and reported afterwards.
NextReport ==
  \/ response = NoResponse /\ Ingest(<<RowA, RowC>>)
  \/ response = NoResponse /\ CreateStack
  \/ response = NoResponse /\ \E body \in ReportBodies : AddItem(1, body)
  \/ response = NoResponse /\ ReorderPermStep
  \/ response = NoResponse /\ Tick
  \/ \E sid \in StackRequestIds : GenerateReport(sid)
  \/ \E sid \in StackRequestIds : ViewReport(sid)

SpecReport == Init /\ [][NextReport]_vars

(***************************************************************************)
(* The claims about the report.                                            *)
(***************************************************************************)
\* C21: in the lines of a generated report, a line of a geometry-driven or
\* composite part (Anaconda Lines, Rotating Head, Adapter Spool) never has
\* a pressure segment, whatever pressureValue is stored, and every
\* attribute-driven part with a non-null pressureValue has a line of its
\* name with the segment of that value (as many such lines as such parts).
C21_PressureSegmentByCategory ==
  (response.op = "report" /\ response.status = 200) =>
    LET parts == response.body.parts
        lines == response.body.lines
    IN  /\ \A i \in 1..Len(lines) :
             lines[i].name \in {"Anaconda Lines", "Rotating Head", "Adapter Spool"}
               => lines[i].pressure = None
        /\ \A i \in 1..Len(parts) :
             (parts[i].partType \in PRESSURE_DRIVEN_PARTS
                /\ parts[i].pressureValue # None)
             => Cardinality({k \in 1..Len(lines) :
                   /\ lines[k].name = getPartDisplayName(parts[i].partType, None).baseName
                   /\ lines[k].pressure = Some(NumToString(Val(parts[i].pressureValue)))})
                = Cardinality({k \in 1..Len(parts) :
                   /\ parts[k].partType = parts[i].partType
                   /\ parts[k].pressureValue = parts[i].pressureValue})

\* C22: in one report the i-th distinct spool group met in stack order has
\* the i-th letter from 'A' (as many lines with that letter as the group has
\* sides, no letter outside the first n for n groups), and the lines of a
\* group are labelled Side 1 and Side 2 in this order and nothing else.
C22_LettersAndSides ==
  (response.op = "report" /\ response.status = 200) =>
    LET parts == response.body.parts
        lines == response.body.lines
        IsSide(p) == p.partType = "ADAPTER_SPOOL_SIDE" /\ p.spoolGroupId # None
        Lettered(l) == l.letter # None
        sides == SelectSeq(parts, IsSide)
        first == {i \in 1..Len(sides) :
                    \A j \in 1..(i - 1) : sides[j].spoolGroupId # sides[i].spoolGroupId}
        groupAt(i) == CHOOSE g \in {sides[k].spoolGroupId : k \in first} :
                        \E k \in first : /\ sides[k].spoolGroupId = g
                                         /\ Cardinality({j \in first : j < k}) = i - 1
        labels(i) == LET Has(l) == l.letter = Some(SpoolLetters[i])
                         ls == SelectSeq(lines, Has)
                     IN  [k \in 1..Len(ls) |-> ls[k].side]
    IN  /\ {l.letter : l \in {lines[k] : k \in {j \in 1..Len(lines) : Lettered(lines[j])}}}
             = {Some(SpoolLetters[i]) : i \in 1..Cardinality(first)}
        /\ \A i \in 1..Cardinality(first) :
             /\ Len(labels(i)) =
                  Cardinality({k \in 1..Len(sides) : sides[k].spoolGroupId = groupAt(i)})
             /\ labels(i) \in {<<Some(<<"1">>)>>, <<Some(<<"1">>), Some(<<"2">>)>>}

C24_ViewShowsThePdfLines ==
  /\ (response.op = "view" /\ response.status = 200) =>
       response.body.lines = generateReportLines(response.body.parts, flangeSpecs)
  /\ (response.op = "report" /\ response.status = 200) =>
       response.body.lines = ReportModalLines(response.body.parts, flangeSpecs)

IngestBatches ==
  LET again == [RowA EXCEPT !.flangeSizeRaw = "13 5/8 5M",
                            !.pressureClassPsi = 3000, !.wrenchNo = 2,
                            !.truckUnitPsi = 2100, !.ringNeeded = "BX-160",
                            !.annularPressure = None,
                            !.mudCrossPressure = Some(3000)]
      other == [RowC EXCEPT !.flangeSizeRaw = "11 5M", !.wrenchNo = 3]
  IN  {<<RowA>>, <<again>>, <<RowC>>, <<other>>, <<again, other>>,
       <<RowC, RowA>>, <<RowA, again>>}

NextIngest ==
  \/ \E specs \in IngestBatches : Ingest(specs)
  \/ \E specs \in IngestBatches : ImportFlangeData(specs)

SpecIngest == Init /\ [][NextIngest]_vars

\* C25: after any sequence of ingestions, with keys repeated inside a batch
\* and across batches, no two catalog records have the same four natural-key
\* attributes (nominalBore, pressureClassLabel, boltCount, sizeOfBolts).
C25_NaturalKeyUnique ==
  \A r, q \in flangeSpecs :
    (/\ r.nominalBore = q.nominalBore
     /\ r.pressureClassLabel = q.pressureClassLabel
     /\ r.boltCount = q.boltCount
     /\ r.sizeOfBolts = q.sizeOfBolts) => r = q

\* A catalog of two records, one of them ingested twice: it carries the
\* sealing element of the second ingestion under the id of the first
C25_Witness ==
  /\ Cardinality(flangeSpecs) = 2
  /\ \E r \in flangeSpecs :
       /\ r.id = 1 /\ r.nominalBore = "13-5/8" /\ r.ringNeeded = "BX-160"
       /\ nextSpecId = 3

\* C29: after a bulk upsert the catalog holds, for every record of the
\* batch, exactly one record with its natural key, and all non-key
\* attributes of that record are the batch's values, also when the key was
\* stored before with other values.
C29_BatchValuesStored ==
  [][\A specs \in IngestBatches :
       LET r == insertFlangeSpecs(flangeSpecs, nextSpecId, specs)
       IN  (r.ok /\ flangeSpecs' = r.table /\ nextSpecId' = r.nid
              /\ response' = response)
           => \A i \in 1..Len(specs) :
                /\ Cardinality({q \in flangeSpecs' :
                                  NaturalKey(q) = NaturalKey(specs[i])}) = 1
                /\ \A q \in flangeSpecs' :
                     NaturalKey(q) = NaturalKey(specs[i]) =>
                       /\ q.flangeSizeRaw = specs[i].flangeSizeRaw
                       /\ q.pressureClassPsi = specs[i].pressureClassPsi
                       /\ q.wrenchNo = specs[i].wrenchNo
                       /\ q.truckUnitPsi = specs[i].truckUnitPsi
                       /\ q.ringNeeded = specs[i].ringNeeded
                       /\ q.annularPressure = specs[i].annularPressure
                       /\ q.singleRamPressure = specs[i].singleRamPressure
                       /\ q.doubleRamsPressure = specs[i].doubleRamsPressure
                       /\ q.mudCrossPressure = specs[i].mudCrossPressure]_vars

C27_StacksIsolated ==
  [][\A a \in StackRequestIds, b \in stackHeaders :
       a # b =>
         /\ \A partId \in PartRequestIds :
              RemoveItem(a, partId) =>
                /\ Members(b)' = Members(b)
                /\ getStackWithParts(b)' = getStackWithParts(b)
         /\ \A ids \in OrderBodies :
              Reorder(a, ids) =>
                /\ Members(b)' = Members(b)
                /\ getStackWithParts(b)' = getStackWithParts(b)]_vars

(***************************************************************************)
(* Several POST /api/stack/:id/items handlers at once.  addPartToStack     *)
(* awaits three statements, each committed on its own: the insert into     *)
(* part_selection, the select of the positions of the stack, and the       *)
(* insert into stack_order.  The handlers interleave between them.         *)
(***************************************************************************)
MaxWriters == 2

\* The route up to the first statement of addPartToStack, the insert into
\* part_selection; a request that fails is answered at once.
StartAppend(sid, body) ==
  /\ Len(pending) < MaxWriters
  /\ nextPartId <= MaxParts
  /\ LET r == PostItem(sid, body)
     IN  /\ partSelections' = r.parts
         /\ nextPartId' = r.nid
         /\ pending' = IF r.status = 200
                       THEN Append(pending,
                                   Statement("selectPositions", sid, nextPartId, <<>>))
                       ELSE pending
  /\ UNCHANGED <<flangeSpecs, nextSpecId, stackHeaders, nextStackId,
                 stackOrders, clientVars, response, clock>>

\* The select of existingOrders and the computation of nextPosition of the
\* i-th handler in flight
SelectPositions(i) ==
  /\ i \in 1..Len(pending)
  /\ pending[i].op = "selectPositions"
  /\ pending' = [pending EXCEPT ![i] =
       Statement("insertOrder", pending[i].stackId, pending[i].partSelectionId,
                 <<NextPosition(stackOrders, pending[i].stackId)>>)]
  /\ UNCHANGED <<serverVars, clientVars, response, clock>>

\* The insert into stack_order of the i-th handler in flight, with the
\* position it computed; the handler then answers 200.
InsertOrder(i) ==
  /\ i \in 1..Len(pending)
  /\ pending[i].op = "insertOrder"
  /\ pending[i].ids # <<>>
  /\ stackOrders' = stackOrders \cup
       {[stackId |-> pending[i].stackId,
         partSelectionId |-> pending[i].partSelectionId,
         position |-> pending[i].ids[1]]}
  /\ pending' = SubSeq(pending, 1, i - 1) \o SubSeq(pending, i + 1, Len(pending))
  /\ UNCHANGED <<flangeSpecs, nextSpecId, stackHeaders, nextStackId,
                 partSelections, nextPartId, clientVars, response, clock>>

NextAppends ==
  \/ IngestStep
  \/ CreateStack
  \/ \E sid \in StackRequestIds, body \in ConcBodies : StartAppend(sid, body)
  \/ \E i \in 1..MaxWriters : SelectPositions(i)
  \/ \E i \in 1..MaxWriters : InsertOrder(i)

SpecAppends == Init /\ [][NextAppends]_vars

\* C28: when appends to one stack run concurrently, every append that
\* reported success has its part stored in the stack with an ordering
\* record, and no two parts of a stack end up with the same position.
C28_ConcurrentAppendsKeepPositions ==
  /\ \A p \in partSelections :
       (\A i \in 1..Len(pending) : pending[i].partSelectionId # p.id) =>
         \E o \in stackOrders :
           o.stackId = p.stackId /\ o.partSelectionId = p.id
  /\ \A o, q \in stackOrders :
       (o.stackId = q.stackId /\ o.position = q.position) => o = q

====
